---- MODULE Spec2Model ----
(***************************************************************************)
(* The /scrape endpoint of src/app/main.py: scrape_urls fans out one       *)
(* scrape_url coroutine per URL over asyncio.gather, each coroutine runs   *)
(* the retry loop, and the handler aggregates the results.                 *)
(*                                                                         *)
(* A coroutine is suspended only while its GET is in flight, so a task is  *)
(* at one of these places: created (not yet run), await (a request is in   *)
(* flight), done (it has returned) or raised (an exception left it).       *)
(* Wall-clock readings (start_time, elapsed_seconds, total_time_seconds)   *)
(* and log lines are not modelled.                                         *)
(***************************************************************************)
EXTENDS Integers, Sequences, FiniteSets, TLC

\* ------------------------------------------------------------------ bounds
\* Longest urls list of a request when every outcome of an attempt can occur.
MaxUrls == 1

\* Longest urls list of a request when an attempt ends in one of BatchOutcomes.
MaxBatch == 2

\* ------------------------------------------------------- program constants
max_retries == 3

USER_AGENTS == <<"Mozilla/5.0 (Windows NT 10.0)", "Mozilla/5.0 (Macintosh)", "Mozilla/5.0 (X11; Linux x86_64)">>

None == "None"

\* ------------------------------------------------------------------ inputs
\* The URLs a request may name (a list may repeat one).
Urls == {"http://a", "http://b"}

\* request.proxy_type: the default, and with it an unsupported value.
DefaultProxyType == "datacenter"

ProxyTypes == {DefaultProxyType, "residential"}

\* Values of the DATACENTER_PROXIES environment variable, each written as the
\* sequence of its comma-separated fields; <<"">> is the empty (or unset) string.
EnvValues == { <<"">>, <<" ", "">>, <<" proxy1 ", "", "proxy2 ">> }

\* What one attempt can end with: the final (post-redirect) response, or an
\* exception raised by the client.
Response(s, t) == [kind |-> "response", status_code |-> s, text |-> t]

Raised(k) == [kind |-> k, status_code |-> 0, text |-> ""]

Outcomes ==
    { Response(200, "<html>page</html>"), Response(304, ""),
      Response(404, "not found"), Response(503, "unavailable"),
      Raised("TimeoutException"), Raised("ConnectError") }

\* The outcomes kept for the longer batches: a page, a client error, a timeout.
BatchOutcomes ==
    { Response(200, "<html>page</html>"), Response(404, "not found"),
      Raised("TimeoutException") }

\* ----------------------------------------------------------- pure helpers
RECURSIVE SeqRange(_)
SeqRange(s) == IF s = <<>> THEN {} ELSE {Head(s)} \cup SeqRange(Tail(s))

\* str.strip() on the fields that occur in EnvValues.
Strip(f) ==
    CASE f = " " -> ""
      [] f = " proxy1 " -> "proxy1"
      [] f = "proxy2 " -> "proxy2"
      [] OTHER -> f

NonEmptyField(f) == Strip(f) # ""

\* get_proxy_list(): [] for the empty string, else the stripped non-empty fields.
get_proxy_list(proxies_str) ==
    IF proxies_str = <<"">>
    THEN <<>>
    ELSE LET kept == SelectSeq(proxies_str, NonEmptyField)
         IN  [i \in 1..Len(kept) |-> Strip(kept[i])]

\* random.choice(seq) for a non-empty seq: any element.
RandomChoice(seq) == SeqRange(seq)

\* The first attempt made without a proxy, whatever the pool.
InitialProxy_direct(proxies) == {None}

\* Lines 53-58: the proxy for the first attempt.
InitialProxy(proxies) == IF proxies = <<>> THEN {None} ELSE RandomChoice(proxies)

\* A fixed endpoint drawn when the pool is empty.
RedrawProxy_fallback(proxies, proxy_url) ==
    IF proxies # <<>> THEN RandomChoice(proxies) ELSE {"proxy1"}

\* A proxy other than the one just used, when the pool has another.
RedrawProxy_different(proxies, proxy_url) ==
    IF proxies # <<>>
    THEN IF RandomChoice(proxies) \ {proxy_url} # {}
         THEN RandomChoice(proxies) \ {proxy_url}
         ELSE RandomChoice(proxies)
    ELSE {proxy_url}

\* Lines 95-96, 125-126, 143-144: the proxy after a retryable failure.
RedrawProxy(proxies, proxy_url) ==
    IF proxies # <<>> THEN RandomChoice(proxies) ELSE {proxy_url}

\* Lines 65-73: the arguments of the client of one attempt.
ClientArgs(proxy_url) ==
    [follow_redirects |-> TRUE, http2 |-> FALSE,
     proxy |-> IF proxy_url # None THEN <<proxy_url>> ELSE <<>>]

\* The lower limit taken exclusively: a 200 raises.
RaisesForStatus_exclusive(status_code) == ~(200 < status_code /\ status_code < 300)

\* response.raise_for_status(): raises HTTPStatusError unless the status is 2xx.
RaisesForStatus(status_code) == ~(200 <= status_code /\ status_code < 300)

\* The test of line 111 taken for the server errors.
IsClientError_server(status_code) == 500 <= status_code

\* Line 111.
IsClientError(status_code) == 400 <= status_code /\ status_code < 500

\* The last attempt taken to be number max_retries, one past the loop's range.
IsLastAttempt_late(attempt) == attempt = max_retries

\* Lines 99, 129, 147.
IsLastAttempt(attempt) == attempt = max_retries - 1

ProxyUsed(proxy_url) == IF proxy_url # None THEN "datacenter" ELSE "none"

\* The result dictionaries; an absent key is <<>>, a present one <<value>>.
SuccessResult(url, o, proxy_url) ==
    [url |-> url, status_code |-> <<o.status_code>>, content |-> <<o.text>>,
     error |-> <<>>, success |-> TRUE, proxy_used |-> ProxyUsed(proxy_url)]

TimeoutResult(url, proxy_url) ==
    [url |-> url, status_code |-> <<>>, content |-> <<>>,
     error |-> <<[msg |-> "All retry attempts timed out", exc |-> <<>>]>>,
     success |-> FALSE, proxy_used |-> ProxyUsed(proxy_url)]

ClientErrorResult(url, o, proxy_url) ==
    [url |-> url, status_code |-> <<o.status_code>>, content |-> <<>>,
     error |-> <<[msg |-> "HTTP error: ", exc |-> <<o>>]>>,
     success |-> FALSE, proxy_used |-> ProxyUsed(proxy_url)]

\* The status left out, as in the other returns at exhaustion.
HTTPExhaustedResult_nostatus(url, o, proxy_url) ==
    [url |-> url, status_code |-> <<>>, content |-> <<>>,
     error |-> <<[msg |-> "All retry attempts failed with HTTP errors: ", exc |-> <<o>>]>>,
     success |-> FALSE, proxy_used |-> ProxyUsed(proxy_url)]

HTTPExhaustedResult(url, o, proxy_url) ==
    [url |-> url, status_code |-> <<o.status_code>>, content |-> <<>>,
     error |-> <<[msg |-> "All retry attempts failed with HTTP errors: ", exc |-> <<o>>]>>,
     success |-> FALSE, proxy_used |-> ProxyUsed(proxy_url)]

UnexpectedResult(url, o, proxy_url) ==
    [url |-> url, status_code |-> <<>>, content |-> <<>>,
     error |-> <<[msg |-> "All retry attempts failed with unexpected errors: ", exc |-> <<o>>]>>,
     success |-> FALSE, proxy_used |-> ProxyUsed(proxy_url)]

UnknownResult(url, proxy_url) ==
    [url |-> url, status_code |-> <<>>, content |-> <<>>,
     error |-> <<[msg |-> "Unknown failure in retry logic", exc |-> <<>>]>>,
     success |-> FALSE, proxy_used |-> ProxyUsed(proxy_url)]

\* ------------------------------------------------------------------- state
VARIABLES
    env,            \* os.environ["DATACENTER_PROXIES"], as its comma-separated fields
    pc,             \* scrape_urls: "idle", "gather", "returned", "rejected", "failed"
    request,        \* the ScrapeRequest being served
    tasks,          \* one scrape_url coroutine per URL: its place and its locals
    hist,           \* per task, the outcomes of its attempts so far, oldest first
    response,       \* what scrape_urls gave back: <<>> until it does
    proxy_reads,    \* calls of get_proxy_list() so far
    network_calls   \* GET requests sent so far

vars == <<env, pc, request, tasks, hist, response, proxy_reads, network_calls>>

NoRequest == [urls |-> <<>>, proxy_type |-> DefaultProxyType]

\* Sequences over S of length 0..n.
SeqsUpTo(S, n) == UNION { [1..k -> S] : k \in 0..n }

Init ==
    /\ env \in EnvValues
    /\ pc = "idle"
    /\ request = NoRequest
    /\ tasks = <<>>
    /\ hist = <<>>
    /\ response = <<>>
    /\ proxy_reads = 0
    /\ network_calls = 0

\* ------------------------------------------------------- scrape_url (task)
\* A coroutine object that has not run yet.
Created ==
    [pc |-> "created", attempt |-> 0, proxies |-> <<>>, proxy_url |-> None,
     headers |-> None, result |-> <<>>]

\* return: the frame and its locals are gone, the result is kept for gather.
Returned(res) ==
    [pc |-> "done", attempt |-> 0, proxies |-> <<>>, proxy_url |-> None,
     headers |-> None, result |-> <<res>>]

\* The user-agent moved on with the attempt number.
NextIteration_rotate(t, url, p) ==
    IF t.attempt + 1 < max_retries
    THEN [t EXCEPT !.attempt = @ + 1, !.proxy_url = p,
                   !.headers = USER_AGENTS[t.attempt + 2]]
    ELSE Returned(UnknownResult(url, p))

\* The loop's range one short: the last attempt of the budget is never made.
NextIteration_short(t, url, p) ==
    IF t.attempt + 1 < max_retries - 1
    THEN [t EXCEPT !.attempt = @ + 1, !.proxy_url = p]
    ELSE Returned(UnknownResult(url, p))

\* The end of a loop iteration that did not return: the next iteration sends the
\* next request, and past range(max_retries) the function falls through to
\* lines 157-165.
NextIteration(t, url, p) ==
    IF t.attempt + 1 < max_retries
    THEN [t EXCEPT !.attempt = @ + 1, !.proxy_url = p]
    ELSE Returned(UnknownResult(url, p))

\* An exception leaves the coroutine: gather hands it to the handler.
Raises(o) ==
    [pc |-> "raised", attempt |-> 0, proxies |-> <<>>, proxy_url |-> None,
     headers |-> None, result |-> <<>>]

\* Without the clause of line 139, a transport error is caught by none.
ExceptClause_narrow(o) ==
    IF o.kind = "response"
    THEN IF RaisesForStatus(o.status_code) THEN "HTTPStatusError" ELSE "none"
    ELSE IF o.kind = "TimeoutException" THEN "TimeoutException" ELSE "uncaught"

\* Lines 76-78, 92, 108, 139: the except clause that takes the outcome, "none"
\* when nothing is raised.
ExceptClause(o) ==
    IF o.kind = "response"
    THEN IF RaisesForStatus(o.status_code) THEN "HTTPStatusError" ELSE "none"
    ELSE IF o.kind = "TimeoutException" THEN "TimeoutException" ELSE "Exception"

\* Lines 76-155: what the coroutine does with the outcome o of its attempt, p
\* being the proxy drawn if the outcome is a retryable failure.
OnOutcome(t, url, o, p) ==
    LET clause == ExceptClause(o) IN
    CASE clause = "none" ->
           Returned(SuccessResult(url, o, t.proxy_url))
      [] clause = "TimeoutException" ->
           IF IsLastAttempt(t.attempt)
           THEN Returned(TimeoutResult(url, p))
           ELSE NextIteration(t, url, p)
      [] clause = "HTTPStatusError" ->
           IF IsClientError(o.status_code)
           THEN Returned(ClientErrorResult(url, o, t.proxy_url))
           ELSE IF IsLastAttempt(t.attempt)
           THEN Returned(HTTPExhaustedResult(url, o, p))
           ELSE NextIteration(t, url, p)
      [] clause = "Exception" ->
           IF IsLastAttempt(t.attempt)
           THEN Returned(UnexpectedResult(url, o, p))
           ELSE NextIteration(t, url, p)
      [] OTHER -> Raises(o)

\* Whether the outcome leaves the proxy as it is (lines 84-91, 111-120).
KeepsProxy(o) ==
    \/ o.kind = "response" /\ ~RaisesForStatus(o.status_code)
    \/ o.kind = "response" /\ IsClientError(o.status_code)

\* Lines 46-76: the coroutine runs up to its first request.
StartTask(i) ==
    /\ pc = "gather"
    /\ i \in DOMAIN tasks
    /\ tasks[i].pc = "created"
    /\ \E ua \in RandomChoice(USER_AGENTS) :
       LET proxies == get_proxy_list(env) IN
       \E p \in InitialProxy(proxies) :
          tasks' = [tasks EXCEPT ![i] =
                       [pc |-> "await", attempt |-> 0, proxies |-> proxies,
                        proxy_url |-> p, headers |-> ua, result |-> <<>>]]
    /\ proxy_reads' = proxy_reads + 1
    /\ network_calls' = network_calls + 1
    /\ UNCHANGED <<env, pc, request, hist, response>>

\* The attempt number kept in one place for all coroutines: a retry of task i
\* moves the number of every coroutine that is waiting.
Respond_shared(i, o) ==
    /\ pc = "gather"
    /\ i \in DOMAIN tasks
    /\ tasks[i].pc = "await"
    /\ \E p \in (IF KeepsProxy(o) THEN {tasks[i].proxy_url}
                 ELSE RedrawProxy(tasks[i].proxies, tasks[i].proxy_url)) :
          LET mine == OnOutcome(tasks[i], request.urls[i], o, p) IN
          tasks' = [j \in DOMAIN tasks |->
                       IF j = i THEN mine
                       ELSE IF tasks[j].pc = "await" /\ mine.pc = "await"
                       THEN [tasks[j] EXCEPT !.attempt = mine.attempt]
                       ELSE tasks[j]]
    /\ hist' = [hist EXCEPT ![i] = Append(@, o)]
    /\ network_calls' = IF tasks'[i].pc = "await" THEN network_calls + 1 ELSE network_calls
    /\ UNCHANGED <<env, pc, request, response, proxy_reads>>

\* The request in flight of task i ends with outcome o; the coroutine runs on to
\* its return or to its next request.
Respond(i, o) ==
    /\ pc = "gather"
    /\ i \in DOMAIN tasks
    /\ tasks[i].pc = "await"
    /\ \E p \in (IF KeepsProxy(o) THEN {tasks[i].proxy_url}
                 ELSE RedrawProxy(tasks[i].proxies, tasks[i].proxy_url)) :
          tasks' = [tasks EXCEPT ![i] = OnOutcome(tasks[i], request.urls[i], o, p)]
    /\ hist' = [hist EXCEPT ![i] = Append(@, o)]
    /\ network_calls' = IF tasks'[i].pc = "await" THEN network_calls + 1 ELSE network_calls
    /\ UNCHANGED <<env, pc, request, response, proxy_reads>>

\* ---------------------------------------------------- scrape_urls (handler)
\* The test of line 170 left out.
IsEmptyBatch_never(urls) == FALSE

\* Line 170.
IsEmptyBatch(urls) == urls = <<>>

HTTPException(status_code, detail) ==
    [kind |-> "HTTPException", status_code |-> status_code, detail |-> detail]

\* The results taken last awaitable first.
Gather_reversed(ts) == [i \in 1..Len(ts) |-> ts[Len(ts) + 1 - i].result[1]]

\* asyncio.gather(*tasks): the results in the order of the awaitables.
Gather(ts) == [i \in 1..Len(ts) |-> ts[i].result[1]]

RECURSIVE CountSuccess(_)
\* Line 188.
CountSuccess(results) ==
    IF results = <<>> THEN 0
    ELSE (IF Head(results).success THEN 1 ELSE 0) + CountSuccess(Tail(results))

\* The successes not taken off.
CountFailed_all(results, successful) == Len(results)

\* Line 189.
CountFailed(results, successful) == Len(results) - successful

\* The requested proxy_type given back as the one used.
Summary_echo(results) ==
    LET successful == CountSuccess(results)
        failed == CountFailed(results, successful)
    IN  [kind |-> "summary", results |-> results, total |-> Len(results),
         successful |-> successful, failed |-> failed,
         proxy_type_used |-> request.proxy_type]

\* Lines 188-200.
Summary(results) ==
    LET successful == CountSuccess(results)
        failed == CountFailed(results, successful)
    IN  [kind |-> "summary", results |-> results, total |-> Len(results),
         successful |-> successful, failed |-> failed,
         proxy_type_used |-> "datacenter"]

\* Lines 168-171: an empty batch is refused.
Reject(urls, proxy_type) ==
    /\ pc = "idle"
    /\ IsEmptyBatch(urls)
    /\ request' = [urls |-> urls, proxy_type |-> proxy_type]
    /\ response' = <<HTTPException(400, "No URLs provided")>>
    /\ pc' = "rejected"
    /\ UNCHANGED <<env, tasks, hist, proxy_reads, network_calls>>

\* Lines 173-184: the proxies are counted and one coroutine per URL is handed
\* to gather.
Dispatch(urls, proxy_type) ==
    /\ pc = "idle"
    /\ ~IsEmptyBatch(urls)
    /\ request' = [urls |-> urls, proxy_type |-> proxy_type]
    /\ proxy_reads' = proxy_reads + 1
    /\ tasks' = [i \in 1..Len(urls) |-> Created]
    /\ hist' = [i \in 1..Len(urls) |-> <<>>]
    /\ pc' = "gather"
    /\ UNCHANGED <<env, response, network_calls>>

\* The handler resumed by the first task that returns, with the results there
\* are by then.
Return_first ==
    /\ pc = "gather"
    /\ \E i \in DOMAIN tasks : tasks[i].pc = "done"
    /\ response' = <<Summary(Gather(SelectSeq(tasks, LAMBDA t : t.pc = "done")))>>
    /\ pc' = "returned"
    /\ UNCHANGED <<env, request, tasks, hist, proxy_reads, network_calls>>

\* Lines 184-200: gather resumes the handler once every task has returned, or
\* at once with the exception of a task that raised; an exception that leaves
\* the handler is answered with a 500.
Return ==
    /\ pc = "gather"
    /\ \/ \A i \in DOMAIN tasks : tasks[i].pc = "done"
       \/ \E i \in DOMAIN tasks : tasks[i].pc = "raised"
    /\ IF \E i \in DOMAIN tasks : tasks[i].pc = "raised"
       THEN /\ response' = <<HTTPException(500, "Internal Server Error")>>
            /\ pc' = "failed"
       ELSE /\ response' = <<Summary(Gather(tasks))>>
            /\ pc' = "returned"
    /\ UNCHANGED <<env, request, tasks, hist, proxy_reads, network_calls>>

\* Every outcome, requests of up to MaxUrls URLs that leave proxy_type at its
\* default.
Next ==
    \/ /\ pc = "idle"
       /\ \E urls \in SeqsUpTo(Urls, MaxUrls) : Reject(urls, DefaultProxyType)
    \/ /\ pc = "idle"
       /\ \E urls \in SeqsUpTo(Urls, MaxUrls) : Dispatch(urls, DefaultProxyType)
    \/ \E i \in DOMAIN tasks : StartTask(i)
    \/ \E i \in DOMAIN tasks, o \in Outcomes : Respond(i, o)
    \/ Return

Spec == Init /\ [][Next]_vars

\* The outcomes of BatchOutcomes, requests of up to MaxBatch URLs with either
\* proxy_type.
NextBatch ==
    \/ /\ pc = "idle"
       /\ \E urls \in SeqsUpTo(Urls, MaxBatch), proxy_type \in ProxyTypes :
             Reject(urls, proxy_type)
    \/ /\ pc = "idle"
       /\ \E urls \in SeqsUpTo(Urls, MaxBatch), proxy_type \in ProxyTypes :
             Dispatch(urls, proxy_type)
    \/ \E i \in DOMAIN tasks : StartTask(i)
    \/ \E i \in DOMAIN tasks, o \in BatchOutcomes : Respond(i, o)
    \/ Return

SpecBatch == Init /\ [][NextBatch]_vars

\* The batches of SpecBatch that name one URL throughout and leave proxy_type
\* at its default, with the event loop running whatever is ready and every
\* request in flight ending with some outcome: the batch does not stop while a
\* step is left.
NextFair ==
    \/ /\ pc = "idle"
       /\ \E urls \in SeqsUpTo({"http://a"}, MaxBatch) : Reject(urls, DefaultProxyType)
    \/ /\ pc = "idle"
       /\ \E urls \in SeqsUpTo({"http://a"}, MaxBatch) : Dispatch(urls, DefaultProxyType)
    \/ \E i \in DOMAIN tasks : StartTask(i)
    \/ \E i \in DOMAIN tasks, o \in BatchOutcomes : Respond(i, o)
    \/ Return

FairBatch == Init /\ [][NextFair]_vars /\ WF_vars(NextFair)

TypeOK ==
    /\ pc \in {"idle", "gather", "returned", "rejected", "failed"}
    /\ Len(tasks) = Len(hist)
    /\ \A i \in DOMAIN tasks : tasks[i].pc \in {"created", "await", "done", "raised"}

\* ============================================================ properties
Done(i) == tasks[i].pc = "done"

Res(i) == tasks[i].result[1]

\* The requests task i has sent: one per recorded outcome, and the one in flight.
AttemptsMade(i) == Len(hist[i]) + (IF tasks[i].pc = "await" THEN 1 ELSE 0)

RECURSIVE SumAttempts(_)
SumAttempts(n) == IF n = 0 THEN 0 ELSE AttemptsMade(n) + SumAttempts(n - 1)

\* The spec's classes of an attempt's outcome (section 4.3).
Is2xx(o) == o.kind = "response" /\ 200 <= o.status_code /\ o.status_code < 300

Is3xx(o) == o.kind = "response" /\ 300 <= o.status_code /\ o.status_code < 400

Is4xx(o) == o.kind = "response" /\ 400 <= o.status_code /\ o.status_code < 500

Is5xx(o) == o.kind = "response" /\ 500 <= o.status_code

IsTimeout(o) == o.kind = "TimeoutException"

IsTransportError(o) == o.kind \notin {"response", "TimeoutException"}

SpecRetryable(o) == IsTimeout(o) \/ Is5xx(o) \/ IsTransportError(o)

ErrorMsg(res) == IF res.error = <<>> THEN "" ELSE res.error[1].msg

\* C2: a 4xx status at attempt n ends the URL's sequence there: n attempts were
\* made and no more ever are, whatever budget remains, and the result is a
\* failure carrying that status.
C2_ClientErrorStops ==
    /\ network_calls = SumAttempts(Len(tasks))
    /\ \A i \in DOMAIN tasks : \A n \in DOMAIN hist[i] :
          Is4xx(hist[i][n]) =>
             /\ n = Len(hist[i])
             /\ n <= max_retries
             /\ Done(i)
             /\ AttemptsMade(i) = n
             /\ Res(i).success = FALSE
             /\ Res(i).status_code = <<hist[i][n].status_code>>

\* A 404 on the second attempt, with one attempt of the budget left.
C2_Witness ==
    \E i \in DOMAIN tasks :
       /\ Len(hist[i]) = 2
       /\ Is4xx(hist[i][2])
       /\ Done(i)
       /\ AttemptsMade(i) < max_retries

AllTimeouts(h) == h # <<>> /\ \A n \in DOMAIN h : IsTimeout(h[n])

\* C3: a URL whose every attempt times out is attempted max_retries times, no
\* fewer and no more, and then fails with the exhaustion error of timeouts.
C3_TimeoutsExhaust ==
    \A i \in DOMAIN tasks :
       AllTimeouts(hist[i]) =>
          /\ Len(hist[i]) <= max_retries
          /\ Len(hist[i]) < max_retries => tasks[i].pc = "await"
          /\ Len(hist[i]) = max_retries =>
                /\ Done(i)
                /\ AttemptsMade(i) = max_retries
                /\ Res(i).success = FALSE
                /\ ErrorMsg(Res(i)) = "All retry attempts timed out"

C3_Witness ==
    \E i \in DOMAIN tasks :
       AllTimeouts(hist[i]) /\ Len(hist[i]) = max_retries /\ Done(i)

\* C4: retryable failures (timeout, 5xx, transport error) on attempts 1..k-1 and
\* a 2xx response on attempt k give a success with that status after exactly k
\* attempts, and nothing is attempted after it.
C4_RetryThenSuccess ==
    \A i \in DOMAIN tasks : \A k \in DOMAIN hist[i] :
       (Is2xx(hist[i][k]) /\ \A j \in 1..(k - 1) : SpecRetryable(hist[i][j])) =>
          /\ k = Len(hist[i])
          /\ Done(i)
          /\ AttemptsMade(i) = k
          /\ Res(i).success = TRUE
          /\ Res(i).status_code = <<hist[i][k].status_code>>

\* A 5xx on the first attempt and a 200 on the second.
C4_Witness ==
    \E i \in DOMAIN tasks :
       /\ Len(hist[i]) = 2
       /\ Is5xx(hist[i][1])
       /\ Is2xx(hist[i][2])
       /\ Done(i)
       /\ Res(i).success

\* C5: an attempt whose final response is 2xx or 3xx is a Success: the sequence
\* stops there and the result is a success with that status and the body.
C5_RedirectIsSuccess ==
    \A i \in DOMAIN tasks : \A n \in DOMAIN hist[i] :
       (Is2xx(hist[i][n]) \/ Is3xx(hist[i][n])) =>
          /\ n = Len(hist[i])
          /\ Done(i)
          /\ Res(i).success = TRUE
          /\ Res(i).status_code = <<hist[i][n].status_code>>
          /\ Res(i).content = <<hist[i][n].text>>

Results == response[1].results

\* C1: the results of a returned batch are as many as the URLs and stand in the
\* order of the input: the i-th result is the one of the i-th URL's own sequence.
C1_InputOrder ==
    pc = "returned" =>
       /\ response[1].kind = "summary"
       /\ Len(Results) = Len(request.urls)
       /\ \A i \in DOMAIN request.urls :
             /\ Results[i].url = request.urls[i]
             /\ Results[i] = Res(i)

\* Two different URLs, of which the first took more attempts than the second.
C1_Witness ==
    /\ pc = "returned"
    /\ Len(request.urls) = 2
    /\ request.urls[1] # request.urls[2]
    /\ Len(hist[1]) > Len(hist[2])
    /\ Results[1] # Results[2]

\* C6: an empty urls list is refused with the 400 of EmptyBatch before anything
\* else happens: no task, no request, no read of the proxy list, no summary.
C6_EmptyBatchRejected ==
    (pc # "idle" /\ request.urls = <<>>) =>
       /\ pc = "rejected"
       /\ response = <<HTTPException(400, "No URLs provided")>>
       /\ tasks = <<>>
       /\ network_calls = 0
       /\ proxy_reads = 0

C6_Witness == pc = "rejected" /\ request.urls = <<>> /\ response # <<>>

\* C7: a non-empty batch never fails, whatever its attempts end with: no
\* exception leaves a task or the handler, every URL that has finished has one
\* result, a failed sequence shows as a success=false entry, and the summary
\* holds one result per URL.
C7_BatchNeverFails ==
    (pc # "idle" /\ request.urls # <<>>) =>
       /\ pc \in {"gather", "returned"}
       /\ Len(tasks) = Len(request.urls)
       /\ \A i \in DOMAIN tasks :
             /\ tasks[i].pc \in {"created", "await", "done"}
             /\ Done(i) <=> Len(tasks[i].result) = 1
             /\ Done(i) =>
                   /\ Res(i).url = request.urls[i]
                   /\ (Is4xx(hist[i][Len(hist[i])]) \/ SpecRetryable(hist[i][Len(hist[i])]))
                         => Res(i).success = FALSE
       /\ pc = "returned" =>
             /\ response[1].kind = "summary"
             /\ Len(Results) = Len(request.urls)
             /\ \A i \in DOMAIN tasks : Done(i) /\ Results[i] = Res(i)

\* A batch that returned its summary although a URL ended with transport errors.
C7_Witness ==
    /\ pc = "returned"
    /\ \E i \in DOMAIN tasks :
          /\ IsTransportError(hist[i][Len(hist[i])])
          /\ Results[i].success = FALSE

\* C8: the counts of a summary: total is the number of results and of URLs,
\* successful the number of results with success=true, failed the rest.
C8_SummaryCounts ==
    pc = "returned" =>
       LET s == response[1] IN
       /\ s.total = Len(s.results)
       /\ s.total = Len(request.urls)
       /\ s.successful = Cardinality({i \in DOMAIN s.results : s.results[i].success})
       /\ s.failed = s.total - s.successful
       /\ s.successful + s.failed = s.total
       /\ s.successful >= 0
       /\ s.failed >= 0

C8_Witness ==
    /\ pc = "returned"
    /\ response[1].successful = 1
    /\ response[1].failed = 1

\* C9: with an empty proxy pool every request goes out without a proxy, a
\* failure draws none, nothing is raised, and every result says "none".
C9_EmptyPoolNoProxy ==
    get_proxy_list(env) = <<>> =>
       /\ pc # "failed"
       /\ \A i \in DOMAIN tasks :
             /\ tasks[i].pc # "raised"
             /\ tasks[i].pc = "await" =>
                   /\ tasks[i].proxies = <<>>
                   /\ tasks[i].proxy_url = None
                   /\ ClientArgs(tasks[i].proxy_url).proxy = <<>>
             /\ Done(i) => Res(i).proxy_used = "none"
       /\ pc = "returned" =>
             \A i \in DOMAIN Results : Results[i].proxy_used = "none"

\* A variable set to blanks only, and a third request going out after two
\* failed attempts.
C9_Witness ==
    /\ get_proxy_list(env) = <<>>
    /\ env # <<"">>
    /\ \E i \in DOMAIN tasks :
          /\ tasks[i].pc = "await"
          /\ Len(hist[i]) = 2
          /\ tasks[i].proxy_url = None

\* One URL's sequence run alone on the outcomes h, from its first request on.
FirstRequest ==
    [pc |-> "await", attempt |-> 0, proxies |-> <<>>, proxy_url |-> None,
     headers |-> None, result |-> <<>>]

RECURSIVE Alone(_, _, _)
Alone(t, url, h) ==
    IF h = <<>> THEN t
    ELSE IF t.pc # "await" THEN [t EXCEPT !.pc = "overrun"]
    ELSE Alone(OnOutcome(t, url, Head(h), None), url, Tail(h))

ResultCore(res) ==
    [url |-> res.url, success |-> res.success, status_code |-> res.status_code,
     content |-> res.content, error |-> res.error]

Core(t) ==
    [pc |-> t.pc, attempt |-> t.attempt,
     result |-> IF t.result = <<>> THEN <<>> ELSE <<ResultCore(t.result[1])>>]

\* C10: under every interleaving, each URL's place, attempt number and result
\* (success, status, content, error) are those of its sequence run alone on its
\* own attempt outcomes; no other URL's attempts have a part in them.
C10_Independent ==
    \A i \in DOMAIN tasks :
       IF tasks[i].pc = "created"
       THEN hist[i] = <<>>
       ELSE Core(tasks[i]) = Core(Alone(FirstRequest, request.urls[i], hist[i]))

\* A later URL has its result while an earlier one is retrying.
C10_Witness ==
    \E i, j \in DOMAIN tasks :
       /\ i < j
       /\ Done(j)
       /\ tasks[i].pc = "await"
       /\ Len(hist[i]) >= 1
       /\ Len(hist[j]) < Len(hist[i])

\* The result the URL at place i has when its sequence, run alone, ends on its
\* recorded outcomes with the pool of the environment.
ExpectedResult(i) ==
    LET alone == Alone(FirstRequest, request.urls[i], hist[i]).result[1]
    IN  [alone EXCEPT !.proxy_used =
            IF get_proxy_list(env) = <<>> THEN "none" ELSE "datacenter"]

\* C11: proxy_type is advisory: whatever its value a non-empty batch is
\* accepted, every task works from the pool of the environment, and the
\* summary is the one fixed by the urls, the attempts' outcomes and the pool
\* alone, with proxy_type_used "datacenter".
C11_ProxyTypeAdvisory ==
    (pc # "idle" /\ request.urls # <<>>) =>
       /\ pc \in {"gather", "returned"}
       /\ \A i \in DOMAIN tasks :
             tasks[i].pc = "await" => tasks[i].proxies = get_proxy_list(env)
       /\ pc = "returned" =>
             /\ response[1].proxy_type_used = "datacenter"
             /\ response[1] =
                   Summary([i \in 1..Len(request.urls) |-> ExpectedResult(i)])

\* A batch asked for with an unsupported proxy_type has returned its summary.
C11_Witness ==
    /\ pc = "returned"
    /\ request.proxy_type # "datacenter"
    /\ Len(request.urls) = MaxBatch
    /\ response[1].proxy_type_used = "datacenter"

\* C12: a URL whose sequence has started has made between 1 and max_retries
\* attempts; a retryable failure at an attempt before the last is followed by
\* the next attempt; and a sequence that ended before max_retries attempts
\* ended on a 2xx response or on a 4xx.
C12_AttemptBounds ==
    \A i \in DOMAIN tasks :
       tasks[i].pc # "created" =>
          /\ 1 <= AttemptsMade(i)
          /\ AttemptsMade(i) <= max_retries
          /\ \A n \in DOMAIN hist[i] :
                (SpecRetryable(hist[i][n]) /\ n < max_retries) =>
                   AttemptsMade(i) >= n + 1
          /\ (Done(i) /\ AttemptsMade(i) < max_retries) =>
                (Is2xx(hist[i][Len(hist[i])]) \/ Is4xx(hist[i][Len(hist[i])]))

\* The last attempt of the budget is in flight after two retryable failures.
C12_Witness ==
    \E i \in DOMAIN tasks :
       /\ tasks[i].pc = "await"
       /\ Len(hist[i]) = max_retries - 1
       /\ \A n \in DOMAIN hist[i] : SpecRetryable(hist[i][n])
       /\ AttemptsMade(i) = max_retries

\* C13: the summary is returned only once every URL's sequence has ended, and,
\* every attempt yielding an outcome, every URL's sequence ends and the batch
\* returns.
C13_ReturnsAfterAll ==
    /\ [](pc = "returned" => \A i \in DOMAIN tasks : Done(i))
    /\ (pc = "gather") ~> (pc = "returned" /\ \A i \in DOMAIN tasks : Done(i))

\* A batch of two has returned after one of its URLs used the whole budget.
C13_Witness ==
    /\ pc = "returned"
    /\ Len(tasks) = 2
    /\ \E i \in DOMAIN tasks : Len(hist[i]) = max_retries
    /\ \A i \in DOMAIN tasks : Done(i)

C15_UserAgentFixed ==
    [][\A i \in DOMAIN tasks :
          i \in DOMAIN tasks' =>
             /\ (tasks[i].pc = "created" /\ tasks'[i].pc = "await") =>
                   tasks'[i].headers \in SeqRange(USER_AGENTS)
             /\ (tasks[i].pc = "await" /\ tasks'[i].pc = "await") =>
                   tasks'[i].headers = tasks[i].headers]_vars

\* The third request of a URL goes out with the second user-agent of the list.
C15_Witness ==
    \E i \in DOMAIN tasks :
       /\ tasks[i].pc = "await"
       /\ tasks[i].attempt = max_retries - 1
       /\ tasks[i].headers = USER_AGENTS[2]

IsStatusError(o) == o.kind = "response" /\ ~Is2xx(o)

\* C16: an error that speaks of all retry attempts describes every attempt of
\* the URL: "timed out" only if each of the max_retries attempts timed out, "HTTP
\* errors" only if each attempt ended with an HTTP status error.
C16_ErrorDescribesAll ==
    \A i \in DOMAIN tasks :
       Done(i) =>
          /\ ErrorMsg(Res(i)) = "All retry attempts timed out" =>
                /\ Len(hist[i]) = max_retries
                /\ \A n \in DOMAIN hist[i] : IsTimeout(hist[i][n])
          /\ ErrorMsg(Res(i)) = "All retry attempts failed with HTTP errors: " =>
                /\ Len(hist[i]) = max_retries
                /\ \A n \in DOMAIN hist[i] : IsStatusError(hist[i][n])

InLoopMessages ==
    { "", "All retry attempts timed out", "HTTP error: ",
      "All retry attempts failed with HTTP errors: ",
      "All retry attempts failed with unexpected errors: " }

\* C17: the result of the fall-through after the loop is never produced: every
\* result comes from a return inside the loop, after at least one attempt.
C17_NoFallThrough ==
    \A i \in DOMAIN tasks :
       Done(i) =>
          /\ Len(hist[i]) >= 1
          /\ ErrorMsg(Res(i)) # "Unknown failure in retry logic"
          /\ ErrorMsg(Res(i)) \in InLoopMessages

\* A URL whose last attempt of the budget failed has its result from the loop.
C17_Witness ==
    \E i \in DOMAIN tasks :
       /\ Done(i)
       /\ Len(hist[i]) = max_retries
       /\ IsTransportError(hist[i][max_retries])
       /\ ErrorMsg(Res(i)) = "All retry attempts failed with unexpected errors: "

\* C18: the shape of a result: success=true exactly when status_code and content
\* are there and error is not; a failure has an error and no content; and a
\* failure has a status_code exactly when the URL's last attempt ended with an
\* HTTP status error, the status being that attempt's.
C18_ResultShape ==
    \A i \in DOMAIN tasks :
       Done(i) =>
          LET r == Res(i)
              last == hist[i][Len(hist[i])]
          IN  /\ r.success <=>
                    (r.status_code # <<>> /\ r.content # <<>> /\ r.error = <<>>)
              /\ ~r.success => (r.error # <<>> /\ r.content = <<>>)
              /\ ~r.success => (r.status_code # <<>> <=> IsStatusError(last))
              /\ (~r.success /\ r.status_code # <<>>) =>
                    r.status_code = <<last.status_code>>

\* A failure by exhaustion that carries the 5xx status of the last attempt.
C18_Witness ==
    \E i \in DOMAIN tasks :
       /\ Done(i)
       /\ Len(hist[i]) = max_retries
       /\ Is5xx(hist[i][max_retries])
       /\ Res(i).success = FALSE
       /\ Res(i).status_code = <<hist[i][max_retries].status_code>>

\* C19: proxy_used is "datacenter" exactly when the pool read for the URL was
\* not empty, and then every request of the URL went out through a member of
\* that pool; whatever the re-draw after the last failure picks, the value
\* reported is the same.
C19_ProxyUsedIffPool ==
    \A i \in DOMAIN tasks :
       /\ tasks[i].pc = "await" =>
             LET proxy == ClientArgs(tasks[i].proxy_url).proxy IN
             IF tasks[i].proxies = <<>>
             THEN proxy = <<>>
             ELSE proxy # <<>> /\ proxy[1] \in SeqRange(tasks[i].proxies)
       /\ Done(i) =>
             /\ Res(i).proxy_used \in {"datacenter", "none"}
             /\ Res(i).proxy_used = "datacenter" <=> get_proxy_list(env) # <<>>

\* With a pool of two, a URL that failed on its last attempt reports a proxy.
C19_Witness ==
    \E i \in DOMAIN tasks :
       /\ Done(i)
       /\ Len(get_proxy_list(env)) = 2
       /\ Len(hist[i]) = max_retries
       /\ IsTimeout(hist[i][max_retries])
       /\ Res(i).proxy_used = "datacenter"

====
